---- MODULE Spec2Model ----
(***************************************************************************)
(* Model of proto/src/xfer/dns_handle.rs: StreamHandle, BasicDnsHandle and  *)
(* the DnsHandle trait (send, lookup, is_verifying_dnssec), together with   *)
(* the two channel primitives the handles are built on: the unbounded mpsc  *)
(* queue towards the driver and the oneshot completion slot per request.    *)
(* The driver (DnsFuture) that drains the queue is the environment.         *)
(***************************************************************************)
EXTENDS Integers, Sequences, FiniteSets, TLC

\* ------------------------------------------------------------------ bounds
\* Number of send calls made in one behaviour of the dispatcher.
MaxReq == 2
\* Number of send calls made in one behaviour of the cloned handles.
MaxCloneSends == 3
\* Number of lookup calls made in one behaviour.
MaxLookups == 2
\* Number of is_verifying_dnssec calls made in one behaviour.
MaxDnssecCalls == 2
\* Number of BasicDnsHandle values (the original and its clones).
MaxHandles == 2
\* Number of StreamHandle::send calls made in one behaviour.
MaxStreamSends == 4
\* Number of certificates in the chain of a credential bundle.
MaxChain == 2

\* The logical queries, the request options and the identifiers drawn by
\* rand::random() that the model enumerates (u16 extremes included).
Queries == {"example.com A", "example.org AAAA"}
OptionSet == {"default", "dnssec_ok"}
Ids == {0, 65535}
\* Byte buffers handed to StreamHandle::send.
Buffers == {<<>>, <<1>>, <<1, 2>>}

\* ------------------------------------------------------------- arithmetic
U16 == 65536

\* A u16 subtraction as the compiler evaluates a const expression: the
\* record keeps the wrapped value and whether the exact result left 0..65535.
u16_sub(a, b) ==
    [val |-> (a.val - b) % U16,
     overflow |-> a.overflow \/ (a.val - b) < 0 \/ (a.val - b) >= U16]

u16_lit(n) == [val |-> n % U16, overflow |-> n < 0 \/ n >= U16]

MAX_PAYLOAD_LEN_bad == u16_sub(u16_lit(1500), 40)

\* const MAX_PAYLOAD_LEN: u16 = 1500 - 40 - 8;
MAX_PAYLOAD_LEN == u16_sub(u16_sub(u16_lit(1500), 40), 8)

\* ---------------------------------------------------------------- values
NoData == [kind |-> "None"]
Ok(v) == [kind |-> "Ok", val |-> v]
Err(e) == [kind |-> "Err", val |-> e]
NotReady == [kind |-> "NotReady"]

\* ProtoErrorKind::Canceled(c)
Canceled == [kind |-> "Canceled"]
\* ProtoErrorKind::Msg(text)
Msg(text) == [kind |-> "Msg", text |-> text]
\* Display of futures::sync::mpsc::SendError
SendErrorText == "send failed because receiver is gone"

\* A oneshot channel: the value written (if any) and which halves are gone.
EmptySlot == [data |-> NoData, txGone |-> FALSE, rxGone |-> FALSE]

\* Sender<T> dropped without send (Drop for oneshot::Sender).
Complete_drop(slot) == [slot EXCEPT !.txGone = TRUE]

\* Receiver<T> dropped (Drop for oneshot::Receiver).
Receiver_drop(slot) == [slot EXCEPT !.rxGone = TRUE]

\* Complete::send(self, t): consumes the producer half; the value is stored
\* unless the consumer half is already gone, in which case it is handed back.
Complete_send(slot, t) ==
    IF slot.rxGone
    THEN [slot |-> [slot EXCEPT !.txGone = TRUE], ok |-> FALSE]
    ELSE [slot |-> [slot EXCEPT !.data = t, !.txGone = TRUE], ok |-> TRUE]

\* xfer::ignore_send: the Result of Complete::send is logged and discarded.
ignore_send(r) == r.slot

\* oneshot::Receiver::poll: the stored value, else Canceled once the
\* producer half is gone, else not ready.
oneshot_poll(slot) ==
    IF slot.data # NoData THEN Ok(slot.data)
    ELSE IF slot.txGone THEN Err("oneshot::Canceled")
    ELSE NotReady

oneshot_channel_reuse(sl) ==
    IF sl = <<>> THEN [slots |-> <<EmptySlot>>, id |-> 1]
    ELSE [slots |-> sl, id |-> 1]

oneshot_channel_last_pending(sl) ==
    IF sl # <<>> /\ sl[Len(sl)] = EmptySlot
    THEN [slots |-> sl, id |-> Len(sl)]
    ELSE [slots |-> Append(sl, EmptySlot), id |-> Len(sl) + 1]

\* oneshot::channel(): a fresh slot; both halves carry its index.
oneshot_channel(sl) == [slots |-> Append(sl, EmptySlot), id |-> Len(sl) + 1]

unbounded_send_front(alive, q, msg) ==
    IF alive THEN [ok |-> TRUE, queue |-> <<msg>> \o q, err |-> NoData]
    ELSE [ok |-> FALSE, queue |-> q, err |-> msg]

unbounded_send_twice(alive, q, msg) ==
    IF alive THEN [ok |-> TRUE, queue |-> Append(Append(q, msg), msg), err |-> NoData]
    ELSE [ok |-> FALSE, queue |-> q, err |-> msg]

\* UnboundedSender::unbounded_send(&sender, msg): appends to the tail while
\* the receiver is alive; otherwise the message comes back in the SendError.
unbounded_send(alive, q, msg) ==
    IF alive THEN [ok |-> TRUE, queue |-> Append(q, msg), err |-> NoData]
    ELSE [ok |-> FALSE, queue |-> q, err |-> msg]

\* ---------------------------------------------------------------- messages
NoEdns == [kind |-> "None"]
\* Edns::new()
Edns_new == [kind |-> "Edns", max_payload |-> 512, version |-> 0]

\* Message::new(): an empty message with the header defaults.
Message_new ==
    [id |-> 0, message_type |-> "Query", op_code |-> "Query",
     recursion_desired |-> FALSE, queries |-> <<>>, edns |-> NoEdns]

\* Message::edns_mut(): the EDNS record, created on first use.
edns_mut(message) == IF message.edns = NoEdns THEN Edns_new ELSE message.edns

\* DnsRequest::new(message, options)
DnsRequest_new(message, options) == [message |-> message, options |-> options]

\* Requests a caller builds itself and passes to send directly.
RawRequests ==
    {DnsRequest_new([Message_new EXCEPT !.id = 7, !.op_code = "Update",
                                        !.queries = <<"example.net SOA">>],
                    "default"),
     DnsRequest_new([Message_new EXCEPT !.id = 9, !.message_type = "Response"],
                    "dnssec_ok")}

lookup_message_no_rd(query, id) ==
    LET m1 == [Message_new EXCEPT !.queries = Append(@, query)]
        m2 == [m1 EXCEPT !.id = id, !.message_type = "Query", !.op_code = "Query"]
        edns == [edns_mut(m2) EXCEPT !.max_payload = MAX_PAYLOAD_LEN.val,
                                     !.version = 0]
    IN [m2 EXCEPT !.edns = edns]

\* The message DnsHandle::lookup builds from the query and the random id:
\* add_query, set_id, set_message_type, set_op_code, set_recursion_desired,
\* then the EDNS record with set_max_payload and set_version.
lookup_message(query, id) ==
    LET m1 == [Message_new EXCEPT !.queries = Append(@, query)]
        m2 == [m1 EXCEPT !.id = id, !.message_type = "Query", !.op_code = "Query",
                         !.recursion_desired = TRUE]
        edns == [edns_mut(m2) EXCEPT !.max_payload = MAX_PAYLOAD_LEN.val,
                                     !.version = 0]
    IN [m2 EXCEPT !.edns = edns]

\* ------------------------------------------------------------ BasicDnsHandle
\* The error send resolves the second slot with when the enqueue fails.
ChannelSendFailure == Msg(<<"error sending to channel: ", SendErrorText>>)

BasicDnsHandle_send_first_receiver(alive, q, sl, request) ==
    LET ch1 == oneshot_channel(sl)
        r == unbounded_send(alive, q, [request |-> request, complete |-> ch1.id])
    IN IF r.ok
       THEN [ok |-> TRUE, queue |-> r.queue, slots |-> ch1.slots,
             tx |-> ch1.id, rx |-> ch1.id]
       ELSE LET ch2 == oneshot_channel(ch1.slots)
                sent == ignore_send(Complete_send(ch2.slots[ch2.id],
                                                  Err(ChannelSendFailure)))
                first == Complete_drop(ch2.slots[r.err.complete])
            IN [ok |-> FALSE, queue |-> r.queue,
                slots |-> [ch2.slots EXCEPT ![ch2.id] = Receiver_drop(sent),
                                            ![r.err.complete] = first],
                tx |-> ch1.id, rx |-> ch1.id]

BasicDnsHandle_send_poisoned(alive, q, sl, request) ==
    LET usable == alive /\ \A k \in DOMAIN sl : ~(sl[k].txGone /\ sl[k].data = NoData)
        ch1 == oneshot_channel(sl)
        r == unbounded_send(usable, q, [request |-> request, complete |-> ch1.id])
    IN IF r.ok
       THEN [ok |-> TRUE, queue |-> r.queue, slots |-> ch1.slots,
             tx |-> ch1.id, rx |-> ch1.id]
       ELSE LET ch2 == oneshot_channel(ch1.slots)
                sent == ignore_send(Complete_send(ch2.slots[ch2.id],
                                                  Err(ChannelSendFailure)))
                first == Receiver_drop(Complete_drop(ch2.slots[r.err.complete]))
            IN [ok |-> FALSE, queue |-> r.queue,
                slots |-> [ch2.slots EXCEPT ![ch2.id] = sent,
                                            ![r.err.complete] = first],
                tx |-> ch1.id, rx |-> ch2.id]

BasicDnsHandle_send_retry(alive, q, sl, request) ==
    LET ch1 == oneshot_channel(sl)
        r1 == unbounded_send(alive, q, [request |-> request, complete |-> ch1.id])
        r == unbounded_send(alive, r1.queue,
                            [request |-> request, complete |-> ch1.id])
    IN IF r.ok
       THEN [ok |-> TRUE, queue |-> r.queue, slots |-> ch1.slots,
             tx |-> ch1.id, rx |-> ch1.id]
       ELSE LET ch2 == oneshot_channel(ch1.slots)
                sent == ignore_send(Complete_send(ch2.slots[ch2.id],
                                                  Err(ChannelSendFailure)))
                first == Receiver_drop(Complete_drop(ch2.slots[r.err.complete]))
            IN [ok |-> FALSE, queue |-> r.queue,
                slots |-> [ch2.slots EXCEPT ![ch2.id] = sent,
                                            ![r.err.complete] = first],
                tx |-> ch1.id, rx |-> ch2.id]

BasicDnsHandle_send_rewrite_id(alive, q, sl, request) ==
    LET ch1 == oneshot_channel(sl)
        rewritten == [request EXCEPT !.message.id = 0]
        r == unbounded_send(alive, q, [request |-> rewritten, complete |-> ch1.id])
    IN IF r.ok
       THEN [ok |-> TRUE, queue |-> r.queue, slots |-> ch1.slots,
             tx |-> ch1.id, rx |-> ch1.id]
       ELSE LET ch2 == oneshot_channel(ch1.slots)
                sent == ignore_send(Complete_send(ch2.slots[ch2.id],
                                                  Err(ChannelSendFailure)))
                first == Receiver_drop(Complete_drop(ch2.slots[r.err.complete]))
            IN [ok |-> FALSE, queue |-> r.queue,
                slots |-> [ch2.slots EXCEPT ![ch2.id] = sent,
                                            ![r.err.complete] = first],
                tx |-> ch1.id, rx |-> ch2.id]

\* What BasicDnsHandle::send does to the queue and the slots, and which slot
\* the returned future reads.  tx is the slot whose producer half went into
\* the envelope, rx the slot whose consumer half is returned.
BasicDnsHandle_send(alive, q, sl, request) ==
    LET ch1 == oneshot_channel(sl)
        r == unbounded_send(alive, q, [request |-> request, complete |-> ch1.id])
    IN IF r.ok
       THEN [ok |-> TRUE, queue |-> r.queue, slots |-> ch1.slots,
             tx |-> ch1.id, rx |-> ch1.id]
       ELSE LET ch2 == oneshot_channel(ch1.slots)
                sent == ignore_send(Complete_send(ch2.slots[ch2.id],
                                                  Err(ChannelSendFailure)))
                \* e (the envelope and its producer half) dies with the Err
                \* arm, the shadowed first receiver when send returns.
                first == Receiver_drop(Complete_drop(ch2.slots[r.err.complete]))
            IN [ok |-> FALSE, queue |-> r.queue,
                slots |-> [ch2.slots EXCEPT ![ch2.id] = sent,
                                            ![r.err.complete] = first],
                tx |-> ch1.id, rx |-> ch2.id]

ResponseFuture_poll_no_cancel(slot) ==
    LET p == oneshot_poll(slot)
        mapped_err == IF p.kind = "Err" THEN NotReady ELSE p
    IN IF mapped_err.kind = "Ok" THEN mapped_err.val ELSE mapped_err

ResponseFuture_poll_msg(slot) ==
    LET p == oneshot_poll(slot)
        mapped_err == IF p.kind = "Err" THEN Err(Msg(<<"canceled">>)) ELSE p
    IN IF mapped_err.kind = "Ok" THEN mapped_err.val ELSE mapped_err

ResponseFuture_poll_cancel_errors(slot) ==
    LET p == oneshot_poll(slot)
        mapped_err == IF p.kind = "Err" THEN Err(Canceled) ELSE p
    IN IF mapped_err.kind = "Ok"
       THEN (IF mapped_err.val.kind = "Err" THEN Err(Canceled)
             ELSE mapped_err.val)
       ELSE mapped_err

\* The future send returns, polled on the slot it reads:
\* receiver.map_err(Canceled).map(|result| result.into_future()).flatten()
ResponseFuture_poll(slot) ==
    LET p == oneshot_poll(slot)
        mapped_err == IF p.kind = "Err" THEN Err(Canceled) ELSE p
    IN IF mapped_err.kind = "Ok" THEN mapped_err.val ELSE mapped_err

is_verifying_dnssec_sender_open(alive) == alive

\* DnsHandle::is_verifying_dnssec(&self): the trait default, which
\* BasicDnsHandle does not override.
is_verifying_dnssec(alive) == FALSE

\* --------------------------------------------------------------- StreamHandle
StreamHandle_send_swallow(alive, q, buffer) ==
    [result |-> Ok("()"), queue |-> unbounded_send(alive, q, buffer).queue]

\* StreamHandle::send(&mut self, buffer): unbounded_send, its SendError
\* turned into E::from(ProtoErrorKind::Msg("mpsc::SendError ...")).
StreamHandle_send(alive, q, buffer) ==
    LET r == unbounded_send(alive, q, buffer)
    IN [result |-> IF r.ok THEN Ok("()")
                   ELSE Err(Msg(<<"mpsc::SendError ", SendErrorText>>)),
        queue |-> r.queue]

\* ------------------------------------------------------------------ tls_server
\* Option<T>
None == [kind |-> "None"]
Some(v) == [kind |-> "Some", val |-> v]
\* Option::unwrap_or
unwrap_or(opt, default) == IF opt.kind = "Some" THEN opt.val ELSE default

\* The bundles at the paths read_cert is called with: whether the file can
\* be opened and read, whether its bytes are a PKCS#12 structure, the
\* password it is encrypted under, and the chain it holds (none, or certs).
Paths == {"/etc/dns/a.p12", "/etc/dns/b.p12"}
Passwords == {"", "secret"}
Chains ==
    {None} \cup {Some([i \in 1..n |-> <<"chain cert", i>>]) : n \in 0..MaxChain}
Bundles ==
    [path : Paths, exists : BOOLEAN, readable : BOOLEAN, der : BOOLEAN,
     password : Passwords, chain : Chains]
\* The password argument of read_cert.
PasswordArgs == {None, Some("secret"), Some("wrong")}

\* ParsedPkcs12 of a bundle: its key, its certificate and its chain.
ParsedPkcs12(file) ==
    [pkey |-> <<"pkey", file.path>>, cert |-> <<"cert", file.path>>,
     chain |-> file.chain]

\* The String errors of read_cert: a text, the path ({:?}) and the cause.
CertError(text, path, cause) == [text |-> text, path |-> path, cause |-> cause]

read_cert_parse_first(file, password) ==
    IF ~file.exists
    THEN [stages |-> <<"open">>,
          result |-> Err(CertError("error opening pkcs12 cert file: ",
                                   file.path, "io: open"))]
    ELSE IF ~file.readable
    THEN [stages |-> <<"open", "read">>,
          result |-> Err(CertError("could not read pkcs12 key from: ",
                                   file.path, "io: read"))]
    ELSE IF unwrap_or(password, "") # file.password
    THEN [stages |-> <<"open", "read", "parse">>,
          result |-> Err(CertError("failed to open pkcs12 from: ",
                                   file.path, "openssl: mac verify failure"))]
    ELSE IF ~file.der
    THEN [stages |-> <<"open", "read", "parse", "from_der">>,
          result |-> Err(CertError("badly formated pkcs12 key from: ",
                                   file.path, "openssl: asn1 error"))]
    ELSE [stages |-> <<"open", "read", "parse", "from_der">>,
          result |-> Ok(ParsedPkcs12(file))]

\* read_cert(path, password): File::open, read_to_end, Pkcs12::from_der,
\* parse(password.unwrap_or("")), each failure returned at once by `?` as a
\* formatted String; stages lists the calls made.
read_cert(file, password) ==
    IF ~file.exists
    THEN [stages |-> <<"open">>,
          result |-> Err(CertError("error opening pkcs12 cert file: ",
                                   file.path, "io: open"))]
    ELSE IF ~file.readable
    THEN [stages |-> <<"open", "read">>,
          result |-> Err(CertError("could not read pkcs12 key from: ",
                                   file.path, "io: read"))]
    ELSE IF ~file.der
    THEN [stages |-> <<"open", "read", "from_der">>,
          result |-> Err(CertError("badly formated pkcs12 key from: ",
                                   file.path, "openssl: asn1 error"))]
    ELSE IF unwrap_or(password, "") # file.password
    THEN [stages |-> <<"open", "read", "from_der", "parse">>,
          result |-> Err(CertError("failed to open pkcs12 from: ",
                                   file.path, "openssl: mac verify failure"))]
    ELSE [stages |-> <<"open", "read", "from_der", "parse">>,
          result |-> Ok(ParsedPkcs12(file))]

\* The options the builder of SslAcceptor::mozilla_modern may start with.
BaseOptions == {{}, {"NO_COMPRESSION"}, {"NO_SSLV2", "NO_SSLV3", "NO_COMPRESSION"}}

\* The builder calls new_acceptor makes for a bundle, in order.
AcceptorSteps(pkcs12) ==
    <<"mozilla_modern", "set_private_key", "set_certificate">>
    \o (IF pkcs12.chain.kind = "Some"
        THEN [i \in 1..Len(pkcs12.chain.val) |-> "add_extra_chain_cert"]
        ELSE <<>>)

new_acceptor_keeps_tls11(pkcs12, base, failAt) ==
    LET steps == AcceptorSteps(pkcs12)
    IN IF failAt \in 1..Len(steps)
       THEN [steps |-> SubSeq(steps, 1, failAt),
             result |-> Err([kind |-> "io::Error", step |-> steps[failAt]])]
       ELSE [steps |-> steps \o <<"set_options", "build">>,
             result |-> Ok([pkey |-> pkcs12.pkey, cert |-> pkcs12.cert,
                            chain |-> unwrap_or(pkcs12.chain, <<>>),
                            options |-> base \cup {"NO_SSLV2", "NO_SSLV3",
                                                   "NO_TLSV1"}])]

\* new_acceptor(pkcs12): mozilla_modern, set_private_key, set_certificate,
\* add_extra_chain_cert for each certificate of the chain, each returned at
\* once by `?` when it fails (failAt is the call that fails, 0 for none),
\* then set_options and build.
new_acceptor(pkcs12, base, failAt) ==
    LET steps == AcceptorSteps(pkcs12)
    IN IF failAt \in 1..Len(steps)
       THEN [steps |-> SubSeq(steps, 1, failAt),
             result |-> Err([kind |-> "io::Error", step |-> steps[failAt]])]
       ELSE [steps |-> steps \o <<"set_options", "build">>,
             result |-> Ok([pkey |-> pkcs12.pkey, cert |-> pkcs12.cert,
                            chain |-> unwrap_or(pkcs12.chain, <<>>),
                            options |-> base \cup {"NO_SSLV2", "NO_SSLV3",
                                                   "NO_TLSV1", "NO_TLSV1_1"}])]

\* ------------------------------------------------------------------- state
VARIABLES
    nHandles,      \* BasicDnsHandle values in existence (clones share the queue)
    rxAlive,       \* the driver's UnboundedReceiver of envelopes is alive
    queue,         \* envelopes (request, complete) not yet dequeued
    slots,         \* every oneshot channel created so far
    held,          \* envelopes the driver has dequeued and not yet settled
    calls,         \* one record per send call: its arguments and its future
    deqLog,        \* envelopes in the order the driver dequeued them
    drained,       \* envelopes dropped with the receiver, undelivered
    written,       \* what the driver passed to complete.send, in order
    dnssecObs,     \* the values is_verifying_dnssec has returned, in order
    streamRxAlive, \* the receiver of the StreamHandle's byte queue is alive
    streamQueue,   \* buffers not yet taken by the stream's driver
    streamLast,    \* argument and result of the last StreamHandle::send
    streamCalls,   \* number of StreamHandle::send calls made
    tlsRead,       \* the read_cert call made: its arguments and its result
    tlsAcceptor    \* the new_acceptor call made on the parsed bundle

dvars == <<nHandles, rxAlive, queue, slots, held, calls, deqLog, drained,
           written>>
svars == <<streamRxAlive, streamQueue, streamLast, streamCalls>>
tvars == <<tlsRead, tlsAcceptor>>
vars == <<nHandles, rxAlive, queue, slots, held, calls, deqLog, drained,
          written, dnssecObs, streamRxAlive, streamQueue, streamLast,
          streamCalls, tlsRead, tlsAcceptor>>

\* BasicDnsHandle::new(message_sender) and StreamHandle::new(sender), each on
\* a freshly created channel whose receiver the driver owns.
Init ==
    /\ nHandles = 1
    /\ rxAlive = TRUE
    /\ queue = <<>>
    /\ slots = <<>>
    /\ held = {}
    /\ calls = <<>>
    /\ deqLog = <<>>
    /\ drained = <<>>
    /\ written = <<>>
    /\ dnssecObs = <<>>
    /\ streamRxAlive = TRUE
    /\ streamQueue = <<>>
    /\ streamLast = NoData
    /\ streamCalls = 0
    /\ tlsRead = NoData
    /\ tlsAcceptor = NoData

\* #[derive(Clone)] on BasicDnsHandle: another sender on the same queue.
Clone ==
    /\ nHandles < MaxHandles
    /\ nHandles' = nHandles + 1
    /\ UNCHANGED <<rxAlive, queue, slots, held, calls, deqLog, drained,
                   dnssecObs, svars, written, tvars>>

\* One call of BasicDnsHandle::send on handle h; via, query and options
\* record how the call was made, doneBefore the earlier calls whose futures
\* had already completed when it was made.
SendCall(h, request, via, query, options) ==
    /\ LET r == BasicDnsHandle_send(rxAlive, queue, slots, request)
       IN /\ queue' = r.queue
          /\ slots' = r.slots
          /\ calls' = Append(calls,
                 [handle |-> h, request |-> request,
                  alive |-> rxAlive, ok |-> r.ok,
                  tx |-> r.tx, rx |-> r.rx, fut |-> "pending",
                  outcome |-> NoData, nOut |-> 0,
                  via |-> via, query |-> query, options |-> options,
                  doneBefore |-> {c \in DOMAIN calls : calls[c].fut = "done"}])
    /\ UNCHANGED <<nHandles, rxAlive, held, deqLog, drained, dnssecObs,
                   svars, written, tvars>>

\* A caller passes its own request to send.
Send(h, request) == SendCall(h, request, "send", "-", request.options)

\* DnsHandle::lookup(&mut self, query, options)
Lookup(h, query, options) ==
    \E id \in Ids :
        SendCall(h, DnsRequest_new(lookup_message(query, id), options),
                 "lookup", query, options)

\* DnsHandle::is_verifying_dnssec(&self) called on handle h.
IsVerifyingDnssec(h) ==
    /\ Len(dnssecObs) < MaxDnssecCalls
    /\ dnssecObs' = Append(dnssecObs, is_verifying_dnssec(rxAlive))
    /\ UNCHANGED <<dvars, svars, tvars>>

\* ------------------------------------------------------------------ driver
\* The response the driver decodes for a request, and the error it observes.
ResponseFor(request) == [answers |-> request]
DriverError(request) == [kind |-> "Driver", request |-> request]

\* The driver takes the next envelope off the queue.
DriverDequeue ==
    /\ rxAlive
    /\ queue # <<>>
    /\ held' = held \cup {Head(queue)}
    /\ deqLog' = Append(deqLog, Head(queue))
    /\ queue' = Tail(queue)
    /\ UNCHANGED <<nHandles, rxAlive, slots, calls, drained, dnssecObs,
                   svars, written, tvars>>

\* complete.send(v) on a held envelope, its result ignored.
DriverResolve(e, v) ==
    /\ e \in held
    /\ slots' = [slots EXCEPT ![e.complete] = ignore_send(Complete_send(@, v))]
    /\ held' = held \ {e}
    /\ written' = Append(written, [complete |-> e.complete, value |-> v])
    /\ UNCHANGED <<nHandles, rxAlive, queue, calls, deqLog, drained,
                   dnssecObs, svars, tvars>>

DriverResolveOk(e) == DriverResolve(e, Ok(ResponseFor(e.request)))

DriverResolveErr(e) == DriverResolve(e, Err(DriverError(e.request)))

\* The driver drops the producer half of a held envelope unresolved.
DriverDropComplete(e) ==
    /\ e \in held
    /\ slots' = [slots EXCEPT ![e.complete] = Complete_drop(@)]
    /\ held' = held \ {e}
    /\ UNCHANGED <<nHandles, rxAlive, queue, calls, deqLog, drained,
                   dnssecObs, svars, written, tvars>>

\* The driver's receiver is dropped: the channel closes and the envelopes
\* still queued are dropped with it, each with its producer half.
DriverTeardown ==
    /\ rxAlive
    /\ rxAlive' = FALSE
    /\ queue' = <<>>
    /\ drained' = drained \o queue
    /\ slots' = [k \in DOMAIN slots |->
                    IF \E i \in DOMAIN queue : queue[i].complete = k
                    THEN Complete_drop(slots[k]) ELSE slots[k]]
    /\ UNCHANGED <<nHandles, held, calls, deqLog, dnssecObs,
                   svars, written, tvars>>

\* ------------------------------------------------------------------ caller
\* The caller's task polls the future of call c and it is ready.
Poll(c) ==
    /\ c \in DOMAIN calls
    /\ calls[c].fut = "pending"
    /\ LET p == ResponseFuture_poll(slots[calls[c].rx])
       IN /\ p.kind # "NotReady"
          /\ calls' = [calls EXCEPT ![c].fut = "done", ![c].outcome = p,
                                    ![c].nOut = @ + 1]
          /\ slots' = [slots EXCEPT ![calls[c].rx].data = NoData]
    /\ UNCHANGED <<nHandles, rxAlive, queue, held, deqLog, drained,
                   dnssecObs, svars, written, tvars>>

\* The caller drops the future of call c before it has completed.
Abandon(c) ==
    /\ c \in DOMAIN calls
    /\ calls[c].fut = "pending"
    /\ calls' = [calls EXCEPT ![c].fut = "abandoned"]
    /\ slots' = [slots EXCEPT ![calls[c].rx] = Receiver_drop(@)]
    /\ UNCHANGED <<nHandles, rxAlive, queue, held, deqLog, drained,
                   dnssecObs, svars, written, tvars>>

\* ----------------------------------------------------------- stream actions
\* One call of StreamHandle::send.
StreamSend(buffer) ==
    /\ streamCalls < MaxStreamSends
    /\ LET r == StreamHandle_send(streamRxAlive, streamQueue, buffer)
       IN /\ streamQueue' = r.queue
          /\ streamLast' = [buffer |-> buffer, result |-> r.result]
    /\ streamCalls' = streamCalls + 1
    /\ UNCHANGED <<dvars, dnssecObs, streamRxAlive, tvars>>

\* The stream's driver takes the next buffer.
StreamRecv ==
    /\ streamRxAlive
    /\ streamQueue # <<>>
    /\ streamQueue' = Tail(streamQueue)
    /\ UNCHANGED <<dvars, dnssecObs, streamRxAlive, streamLast, streamCalls,
                   tvars>>

\* The stream's receiver is dropped with whatever is still queued.
StreamTeardown ==
    /\ streamRxAlive
    /\ streamRxAlive' = FALSE
    /\ streamQueue' = <<>>
    /\ UNCHANGED <<dvars, dnssecObs, streamLast, streamCalls, tvars>>

\* -------------------------------------------------------------- tls actions
\* One call of read_cert on a bundle file.
ReadCert(file, password) ==
    /\ tlsRead = NoData
    /\ tlsRead' = [file |-> file, password |-> password,
                   stages |-> read_cert(file, password).stages,
                   result |-> read_cert(file, password).result]
    /\ UNCHANGED <<dvars, dnssecObs, svars, tlsAcceptor>>

\* One call of new_acceptor on the bundle read_cert returned.
NewAcceptor(base, failAt) ==
    /\ tlsRead # NoData
    /\ tlsRead.result.kind = "Ok"
    /\ tlsAcceptor = NoData
    /\ failAt <= Len(AcceptorSteps(tlsRead.result.val))
    /\ tlsAcceptor' = [failAt |-> failAt,
                       steps |-> new_acceptor(tlsRead.result.val, base, failAt).steps,
                       result |-> new_acceptor(tlsRead.result.val, base, failAt).result]
    /\ UNCHANGED <<dvars, dnssecObs, svars, tlsRead>>

\* ------------------------------------------------------------ specifications
\* The dispatcher with its driver and its callers: requests sent on the
\* shared queue, dequeued, settled in any order, polled or abandoned.
Next ==
    \/ /\ Len(calls) < MaxReq
       /\ \E h \in 1..nHandles, request \in RawRequests : Send(h, request)
    \/ DriverDequeue
    \/ \E e \in held : DriverResolveOk(e)
    \/ \E e \in held : DriverResolveErr(e)
    \/ \E e \in held : DriverDropComplete(e)
    \/ DriverTeardown
    \/ \E c \in DOMAIN calls : Poll(c)
    \/ \E c \in DOMAIN calls : Abandon(c)

Spec == Init /\ [][Next]_vars

\* What the driver does with the envelope whose producer half is slot k.
DriverSettle(k) ==
    \E e \in held :
        /\ e.complete = k
        /\ (DriverResolveOk(e) \/ DriverResolveErr(e) \/ DriverDropComplete(e))

\* The driver task keeps draining the queue and settles every envelope it
\* holds; a caller's task is woken when its slot is resolved or dropped.
FairSpec ==
    /\ Init /\ [][Next]_vars
    /\ WF_vars(DriverDequeue)
    /\ \A k \in 1..(2 * MaxReq) : WF_vars(DriverSettle(k))
    /\ \A c \in 1..MaxReq : WF_vars(Poll(c))

\* Several clones of the handle appending to the one queue the driver drains.
ClonesNext ==
    \/ Clone
    \/ /\ Len(calls) < MaxCloneSends
       /\ \E h \in 1..nHandles, request \in RawRequests : Send(h, request)
    \/ DriverDequeue
    \/ DriverTeardown

SpecClones == Init /\ [][ClonesNext]_vars

\* lookup on every query, option and identifier, up to the caller's result.
LookupNext ==
    \/ /\ Len(calls) < MaxLookups
       /\ \E h \in 1..nHandles, query \in Queries, options \in OptionSet :
              Lookup(h, query, options)
    \/ DriverDequeue
    \/ \E e \in held : DriverResolveOk(e)
    \/ DriverTeardown
    \/ \E c \in DOMAIN calls : Poll(c)

SpecLookup == Init /\ [][LookupNext]_vars

\* is_verifying_dnssec asked between sends and lookups, driver alive or not.
DnssecNext ==
    \/ /\ Len(calls) < MaxReq
       /\ \E h \in 1..nHandles, request \in RawRequests : Send(h, request)
    \/ /\ Len(calls) < MaxReq
       /\ \E h \in 1..nHandles, query \in Queries, options \in OptionSet :
              Lookup(h, query, options)
    \/ \E h \in 1..nHandles : IsVerifyingDnssec(h)
    \/ DriverTeardown

SpecDnssec == Init /\ [][DnssecNext]_vars

\* The byte queue of a StreamHandle and the driver reading it.
StreamNext ==
    \/ \E buffer \in Buffers : StreamSend(buffer)
    \/ StreamRecv
    \/ StreamTeardown

SpecStream == Init /\ [][StreamNext]_vars

\* A credential bundle read from a file and an acceptor built from it.
TlsNext ==
    \/ \E file \in Bundles, password \in PasswordArgs : ReadCert(file, password)
    \/ \E base \in BaseOptions, failAt \in 0..(3 + MaxChain) :
           NewAcceptor(base, failAt)

SpecTls == Init /\ [][TlsNext]_vars

\* ------------------------------------------------------------------ claims
\* The envelopes that are or were on the queue: waiting, dequeued, drained.
Enqueued == queue \o deqLog \o drained

\* How often the producer half of slot k appears in a sequence of envelopes.
Occurrences(seq, k) == Cardinality({i \in DOMAIN seq : seq[i].complete = k})

\* The producer half of slot k is still with the queue or with the driver.
InFlight(k) ==
    \/ \E i \in DOMAIN queue : queue[i].complete = k
    \/ \E e \in held : e.complete = k

\* C1 as stated: every result returned by a send made while the receiver
\* was alive has, once the caller is through with it (completed or
\* abandoned), completed with exactly one outcome.
C1_Original ==
    \A c \in DOMAIN calls :
        (calls[c].alive /\ calls[c].fut \in {"done", "abandoned"})
            => calls[c].nOut = 1

\* C1, amended: a result returned by a send made while the receiver was alive
\* never completes with more than one outcome; once completed it carries
\* exactly one (a response, an error or Canceled); while it is pending its
\* outcome is still on its way (the producer half is queued, held by the
\* driver, or the future is ready to be polled); a result the caller
\* abandoned has completed with none.
C1_ExactlyOneOutcome ==
    \A c \in DOMAIN calls :
        calls[c].alive =>
            /\ calls[c].ok
            /\ calls[c].nOut <= 1
            /\ calls[c].fut = "done" =>
                   /\ calls[c].nOut = 1
                   /\ calls[c].outcome.kind \in {"Ok", "Err"}
            /\ calls[c].fut = "pending" =>
                   /\ calls[c].nOut = 0
                   /\ \/ InFlight(calls[c].rx)
                      \/ ResponseFuture_poll(slots[calls[c].rx]).kind # "NotReady"
            /\ calls[c].fut = "abandoned" => calls[c].nOut = 0

\* Two sends on a live queue: one has completed with Canceled, the other
\* was abandoned by its caller.
C1_Witness ==
    \E c, d \in DOMAIN calls :
        /\ calls[c].alive /\ calls[c].fut = "done" /\ calls[c].nOut = 1
        /\ calls[c].outcome = Err(Canceled)
        /\ calls[d].alive /\ calls[d].fut = "abandoned"

\* C2: a send made after the driver's receiver was torn down fails to
\* enqueue, and the future it returns is resolved with the channel-send
\* failure from the moment it is returned; the first slot is dropped on both
\* sides, unresolved, and no envelope of the call is on the queue or with
\* the driver.
C2_SendAfterTeardown ==
    \A c \in DOMAIN calls :
        ~calls[c].alive =>
            /\ ~calls[c].ok
            /\ calls[c].rx # calls[c].tx
            /\ calls[c].fut = "pending" =>
                   ResponseFuture_poll(slots[calls[c].rx]) = Err(ChannelSendFailure)
            /\ calls[c].fut = "done" => calls[c].outcome = Err(ChannelSendFailure)
            /\ slots[calls[c].tx] = [data |-> NoData, txGone |-> TRUE, rxGone |-> TRUE]
            /\ ~InFlight(calls[c].tx) /\ ~InFlight(calls[c].rx)
            /\ Occurrences(Enqueued, calls[c].tx) = 0
            /\ Occurrences(Enqueued, calls[c].rx) = 0

\* A send after the teardown whose caller has read the failure.
C2_Witness ==
    \E c \in DOMAIN calls :
        /\ ~calls[c].alive /\ ~rxAlive
        /\ calls[c].fut = "done"
        /\ calls[c].outcome = Err(ChannelSendFailure)

\* The producer half of the slot call c reads is gone and nothing was written.
ProducerDropped(c) ==
    /\ c \in DOMAIN calls
    /\ calls[c].fut = "pending"
    /\ slots[calls[c].rx].txGone
    /\ slots[calls[c].rx].data = NoData

\* C3: an envelope dropped with the receiver has lost its producer half, and
\* whenever the producer half of a pending call's slot is dropped with no
\* outcome written, the call does not stay pending: the caller reads
\* Canceled (or has dropped the future itself).
C3_CanceledEventually ==
    /\ [](\A i \in DOMAIN drained : slots[drained[i].complete].txGone)
    /\ \A c \in 1..MaxReq :
           ProducerDropped(c) ~>
               /\ c \in DOMAIN calls
               /\ \/ calls[c].fut = "done" /\ calls[c].outcome = Err(Canceled)
                  \/ calls[c].fut = "abandoned"

\* A call whose envelope was still queued at the teardown has read Canceled.
C3_Witness ==
    \E c \in DOMAIN calls :
        /\ Occurrences(drained, calls[c].tx) = 1
        /\ calls[c].fut = "done"
        /\ calls[c].outcome = Err(Canceled)

\* C4: whatever a caller reads from, or finds written in, the slot of its
\* call is the outcome the driver produced for that call's own request.
C4_NoCrossDelivery ==
    \A c \in DOMAIN calls :
        LET seen == IF calls[c].fut = "done" THEN calls[c].outcome
                    ELSE slots[calls[c].rx].data
        IN /\ seen.kind = "Ok" => seen.val = ResponseFor(calls[c].request)
           /\ (seen.kind = "Err" /\ seen.val.kind = "Driver")
                  => seen.val = DriverError(calls[c].request)

\* Two different requests in flight together, resolved in the reverse
\* order, each read by its caller.
C4_Witness ==
    \E c, d \in DOMAIN calls :
        /\ c < d
        /\ calls[c].request # calls[d].request
        /\ calls[c].fut = "done" /\ calls[c].outcome.kind = "Ok"
        /\ calls[d].fut = "done" /\ calls[d].outcome.kind = "Err"
        /\ calls[d].outcome.val.kind = "Driver"

\* The call whose send put envelope e on the queue.
CallOf(e) == CHOOSE c \in DOMAIN calls : calls[c].tx = e.complete

\* C5: the driver dequeues the envelopes of one handle in the order of that
\* handle's send calls: when it takes an envelope, every envelope an earlier
\* send of the same handle enqueued has been taken before it, whatever the
\* other clones sent in between.
C5_FifoPerHandle ==
    \A j \in DOMAIN deqLog :
        \A c \in DOMAIN calls :
            (/\ c < CallOf(deqLog[j])
             /\ calls[c].handle = calls[CallOf(deqLog[j])].handle
             /\ calls[c].ok)
                => \E i \in 1..(j - 1) : CallOf(deqLog[i]) = c

\* A handle sent, a clone sent, the handle sent again; all three dequeued.
C5_Witness ==
    /\ Len(calls) = 3 /\ Len(deqLog) = 3
    /\ calls[1].handle = calls[3].handle
    /\ calls[1].handle # calls[2].handle

C7_LookupRequest ==
    \A c \in DOMAIN calls :
        calls[c].via = "lookup" =>
            /\ calls[c].request.message.queries = <<calls[c].query>>
            /\ calls[c].request.message.message_type = "Query"
            /\ calls[c].request.message.op_code = "Query"
            /\ calls[c].request.message.recursion_desired = TRUE
            /\ calls[c].request.options = calls[c].options
            /\ calls[c].ok =>
                   /\ calls[c].rx = calls[c].tx
                   /\ Occurrences(Enqueued, calls[c].tx) = 1
                   /\ \A i \in DOMAIN Enqueued :
                          Enqueued[i].complete = calls[c].tx
                              => Enqueued[i].request = calls[c].request

\* A lookup with non-default options whose envelope the driver has taken.
C7_Witness ==
    \E c \in DOMAIN calls :
        /\ calls[c].via = "lookup"
        /\ calls[c].options = "dnssec_ok"
        /\ Occurrences(deqLog, calls[c].tx) = 1

\* C8: every message lookup builds has an EDNS record with max payload
\* 1500 - 40 - 8 = 1452, a value the u16 constant reaches without
\* overflow, and version 0.
C8_EdnsPayload ==
    /\ MAX_PAYLOAD_LEN.overflow = FALSE
    /\ MAX_PAYLOAD_LEN.val = 1452
    /\ \A c \in DOMAIN calls :
           calls[c].via = "lookup" =>
               /\ calls[c].request.message.edns # NoEdns
               /\ calls[c].request.message.edns.max_payload = 1452
               /\ calls[c].request.message.edns.version = 0

\* Two lookups that differ in query, options and identifier.
C8_Witness ==
    \E c, d \in DOMAIN calls :
        /\ calls[c].via = "lookup" /\ calls[d].via = "lookup"
        /\ calls[c].query # calls[d].query
        /\ calls[c].options # calls[d].options
        /\ calls[c].request.message.id # calls[d].request.message.id

\* C9: a StreamHandle::send returns an error exactly when the receiver is
\* gone; otherwise it returns Ok and the queue grows by that buffer at its
\* tail, however long it already is; on an error the queue is unchanged.
C9_StreamSend ==
    [][streamCalls' # streamCalls =>
          /\ (streamLast'.result.kind = "Err") <=> ~streamRxAlive
          /\ streamLast'.result.kind = "Ok" =>
                 streamQueue' = Append(streamQueue, streamLast'.buffer)
          /\ streamLast'.result.kind = "Err" => streamQueue' = streamQueue
          /\ streamRxAlive' = streamRxAlive]_vars

\* A send that failed after the teardown, following sends that succeeded.
C9_Witness ==
    /\ streamCalls >= 3
    /\ ~streamRxAlive
    /\ streamLast.result.kind = "Err"

\* C10: every call of is_verifying_dnssec returns false, and a call changes
\* nothing of the handle, the queue, the slots or the driver.
C10_NotVerifying ==
    /\ [](\A i \in DOMAIN dnssecObs : dnssecObs[i] = FALSE)
    /\ [][dnssecObs' # dnssecObs => UNCHANGED <<dvars, svars, tvars>>]_vars

\* Asked with the driver alive and again after sends and the teardown.
C10_Witness ==
    /\ Len(dnssecObs) = 2
    /\ ~rxAlive
    /\ \E c, d \in DOMAIN calls :
           /\ calls[c].via = "send" /\ calls[c].ok
           /\ calls[d].via = "lookup" /\ ~calls[d].ok

\* C12: an acceptor new_acceptor returns has the options excluding SSLv2,
\* SSLv3, TLS 1.0 and TLS 1.1 set and carries the bundle's key, certificate
\* and whole chain in order; when a builder call fails the call returns
\* that error, having stopped there, and no acceptor is built.
C12_AcceptorOptions ==
    tlsAcceptor # NoData =>
        LET pkcs12 == tlsRead.result.val
        IN /\ tlsAcceptor.result.kind = "Ok" =>
                  /\ {"NO_SSLV2", "NO_SSLV3", "NO_TLSV1", "NO_TLSV1_1"}
                         \subseteq tlsAcceptor.result.val.options
                  /\ tlsAcceptor.result.val.pkey = pkcs12.pkey
                  /\ tlsAcceptor.result.val.cert = pkcs12.cert
                  /\ pkcs12.chain.kind = "Some" =>
                         tlsAcceptor.result.val.chain = pkcs12.chain.val
                  /\ pkcs12.chain.kind = "None" =>
                         tlsAcceptor.result.val.chain = <<>>
                  /\ tlsAcceptor.failAt = 0
           /\ tlsAcceptor.failAt # 0 =>
                  /\ tlsAcceptor.result.kind = "Err"
                  /\ Len(tlsAcceptor.steps) = tlsAcceptor.failAt
                  /\ tlsAcceptor.result.val.step
                         = tlsAcceptor.steps[tlsAcceptor.failAt]
                  /\ \A i \in DOMAIN tlsAcceptor.steps :
                         tlsAcceptor.steps[i] # "build"

\* An acceptor built from a bundle with a chain of two certificates, on a
\* builder that started without the SSLv2 and SSLv3 exclusions.
C12_Witness ==
    /\ tlsAcceptor # NoData
    /\ tlsAcceptor.result.kind = "Ok"
    /\ Len(tlsAcceptor.result.val.chain) >= 2
    /\ tlsAcceptor.result.val.options
           = {"NO_SSLV2", "NO_SSLV3", "NO_TLSV1", "NO_TLSV1_1"}

\* The stages of read_cert and the first of them to fail for a file and a
\* password argument (0 when none fails).
CertStages == <<"open", "read", "from_der", "parse">>
FirstFailure(file, password) ==
    IF ~file.exists THEN 1
    ELSE IF ~file.readable THEN 2
    ELSE IF ~file.der THEN 3
    ELSE IF (IF password.kind = "Some" THEN password.val ELSE "") # file.password
         THEN 4
    ELSE 0

\* C13: read_cert opens, reads, parses and decrypts in that order, with the
\* empty password when none is given, and stops at the first stage that
\* fails with an error naming the path and the cause and no credential; a
\* wrong password fails at the last stage, and without a credential no
\* acceptor is built.
C13_ReadCertStages ==
    tlsRead # NoData =>
        LET ff == FirstFailure(tlsRead.file, tlsRead.password)
        IN /\ tlsRead.stages = SubSeq(CertStages, 1, IF ff = 0 THEN 4 ELSE ff)
           /\ (tlsRead.result.kind = "Ok") <=> (ff = 0)
           /\ ff = 0 => tlsRead.result.val = ParsedPkcs12(tlsRead.file)
           /\ ff # 0 =>
                  /\ tlsRead.result.val.path = tlsRead.file.path
                  /\ tlsRead.result.val.cause # ""
                  /\ tlsRead.result.val.text
                         = <<"error opening pkcs12 cert file: ",
                             "could not read pkcs12 key from: ",
                             "badly formated pkcs12 key from: ",
                             "failed to open pkcs12 from: ">>[ff]
                  /\ tlsAcceptor = NoData

\* A well-formed bundle under "secret" read with the wrong password.
C13_Witness ==
    /\ tlsRead # NoData
    /\ tlsRead.file.password = "secret"
    /\ tlsRead.password = Some("wrong")
    /\ tlsRead.result.kind = "Err"
    /\ tlsRead.result.val.text = "failed to open pkcs12 from: "
    /\ tlsRead.stages = CertStages

\* What the driver passed to complete.send for slot k, in order.
WrittenTo(k) == {i \in DOMAIN written : written[i].complete = k}

\* C14: the outcome a caller reads from the future of its call is the value
\* the driver wrote into the slot of that call: a written response is read as
\* success with that response, a written error as failure with that error;
\* until the caller has read it the future is ready with that same value;
\* and a caller reads a response or a driver error only if the driver wrote
\* it, and Canceled only if the driver wrote nothing.
C14_OutcomeIsWritten ==
    \A c \in DOMAIN calls :
        calls[c].ok =>
            /\ Cardinality(WrittenTo(calls[c].rx)) <= 1
            /\ \A i \in WrittenTo(calls[c].rx) :
                   /\ calls[c].fut = "done" => calls[c].outcome = written[i].value
                   /\ calls[c].fut = "pending" =>
                          ResponseFuture_poll(slots[calls[c].rx]) = written[i].value
            /\ (calls[c].fut = "done" /\ WrittenTo(calls[c].rx) = {})
                   => calls[c].outcome = Err(Canceled)

\* The driver wrote an error for one call and a response for another, and
\* both callers have read what was written.
C14_Witness ==
    \E c, d \in DOMAIN calls, i, j \in DOMAIN written :
        /\ written[i].complete = calls[c].rx /\ written[i].value.kind = "Err"
        /\ calls[c].fut = "done" /\ calls[c].outcome = written[i].value
        /\ written[j].complete = calls[d].rx /\ written[j].value.kind = "Ok"
        /\ calls[d].fut = "done" /\ calls[d].outcome = written[j].value

\* Call c has completed and its caller read Canceled.
ReadCanceled(c) == calls[c].fut = "done" /\ calls[c].outcome = Err(Canceled)

\* C15: once a call has completed with Canceled, every other call made while
\* the receiver was alive, a later one included, has enqueued its one
\* envelope and reads its own slot; one that is still pending with its
\* producer half queued or held is not ready (it has not been failed), and
\* one the driver has written a value for reads that value.
C15_CanceledIsLocal ==
    \A c \in DOMAIN calls :
        ReadCanceled(c) =>
            \A d \in DOMAIN calls \ {c} :
                calls[d].alive =>
                    /\ calls[d].ok
                    /\ calls[d].rx = calls[d].tx
                    /\ Occurrences(Enqueued, calls[d].tx) = 1
                    /\ (calls[d].fut = "pending" /\ InFlight(calls[d].rx))
                           => ResponseFuture_poll(slots[calls[d].rx]) = NotReady
                    /\ \A i \in WrittenTo(calls[d].rx) :
                           /\ calls[d].fut = "pending" =>
                                  ResponseFuture_poll(slots[calls[d].rx])
                                      = written[i].value
                           /\ calls[d].fut = "done" =>
                                  calls[d].outcome = written[i].value

\* A call completed with Canceled; a send made after that, the receiver
\* still alive, was enqueued and has completed with a response.
C15_Witness ==
    \E c, d \in DOMAIN calls :
        /\ ReadCanceled(c)
        /\ c \in calls[d].doneBefore
        /\ rxAlive /\ calls[d].alive /\ calls[d].ok
        /\ calls[d].fut = "done" /\ calls[d].outcome.kind = "Ok"

\* The driver wrote a value for call b and, at that time, none yet for call a.
WrittenBefore(b, a) ==
    \E i \in WrittenTo(calls[b].rx) :
        \A j \in WrittenTo(calls[a].rx) : i < j

\* The values the driver can produce for the request of call c.
OwnOutcomes(c) ==
    {Ok(ResponseFor(calls[c].request)), Err(DriverError(calls[c].request))}

\* C16: for two calls a then b enqueued on the handle, each has a slot of
\* its own, so when the driver resolves b's slot first, b's caller reads b's
\* outcome while a, its producer half still queued or held, stays not ready;
\* and what is written for a afterwards is a's own outcome, which a's
\* caller reads.
C16_ResolutionOrderFree ==
    \A a, b \in DOMAIN calls :
        (a < b /\ calls[a].ok /\ calls[b].ok) =>
          /\ calls[a].rx # calls[b].rx
          /\ WrittenBefore(b, a) =>
            /\ \A i \in WrittenTo(calls[b].rx) :
                   /\ written[i].value \in OwnOutcomes(b)
                   /\ calls[b].fut = "done" => calls[b].outcome = written[i].value
                   /\ calls[b].fut = "pending" =>
                          ResponseFuture_poll(slots[calls[b].rx]) = written[i].value
            /\ (calls[a].fut = "pending" /\ InFlight(calls[a].rx))
                   => ResponseFuture_poll(slots[calls[a].rx]) = NotReady
            /\ \A j \in WrittenTo(calls[a].rx) :
                   /\ written[j].value \in OwnOutcomes(a)
                   /\ calls[a].fut = "done" => calls[a].outcome = written[j].value
                   /\ calls[a].fut = "pending" =>
                          ResponseFuture_poll(slots[calls[a].rx]) = written[j].value

\* Two different requests sent a then b; the driver resolved b first and b's
\* caller has read its outcome while a was pending; a has since been
\* resolved and its future is ready with the response to a's own request.
C16_Witness ==
    \E a, b \in DOMAIN calls :
        /\ a < b /\ calls[a].request # calls[b].request
        /\ WrittenBefore(b, a) /\ WrittenTo(calls[a].rx) # {}
        /\ calls[b].fut = "done" /\ calls[b].outcome \in OwnOutcomes(b)
        /\ calls[a].fut = "pending"
        /\ ResponseFuture_poll(slots[calls[a].rx])
               = Ok(ResponseFor(calls[a].request))

\* The future call c returned was resolved with the channel-send failure.
ReturnedChannelSendFailure(c) ==
    IF calls[c].fut = "done"
    THEN calls[c].outcome = Err(ChannelSendFailure)
    ELSE slots[calls[c].rx].data = Err(ChannelSendFailure)

\* A step is a call of send: it adds a record to calls.
IsSendStep == Len(calls') = Len(calls) + 1

\* C17: a call of send leaves the queue as it was or one envelope longer,
\* that envelope being the call's own, and leaves it as it was when it
\* returns the channel-send failure; so a call has at most one envelope among
\* those ever enqueued, a call that returned the channel-send failure has
\* none, and the envelopes ever enqueued are as many as the calls that did
\* not return the channel-send failure.
C17_EnqueueOnce ==
    /\ [](/\ \A c \in DOMAIN calls :
                /\ Occurrences(Enqueued, calls[c].tx) <= 1
                /\ ReturnedChannelSendFailure(c) <=> ~calls[c].ok
                /\ ReturnedChannelSendFailure(c) =>
                       /\ Occurrences(Enqueued, calls[c].tx) = 0
                       /\ Occurrences(Enqueued, calls[c].rx) = 0
          /\ Len(Enqueued)
                 = Cardinality({c \in DOMAIN calls :
                                   ~ReturnedChannelSendFailure(c)}))
    /\ [][IsSendStep =>
              LET c == Len(calls')
                  e == [request |-> calls'[c].request,
                        complete |-> calls'[c].tx]
              IN IF calls'[c].ok
                 THEN queue' = Append(queue, e)
                 ELSE /\ queue' = queue
                      /\ slots'[calls'[c].rx].data = Err(ChannelSendFailure)]_vars

\* One send was enqueued while the receiver was alive, one made after the
\* teardown returned the channel-send failure: two calls, one envelope.
C17_Witness ==
    \E c, d \in DOMAIN calls :
        /\ calls[c].ok /\ ~ReturnedChannelSendFailure(c)
        /\ ReturnedChannelSendFailure(d)
        /\ Len(Enqueued) = 1

\* C18: a call of send made while the receiver is alive appends to the queue
\* one envelope holding the caller's request as supplied, message (its
\* identifier included) and options, with the producer half of the call's
\* new slot; the envelopes already queued, the slots and futures of the
\* earlier calls, and everything the driver holds are unchanged.
C18_SendFrame ==
    [][(IsSendStep /\ rxAlive) =>
          LET c == Len(calls')
              supplied == calls'[c].request
          IN /\ Len(queue') = Len(queue) + 1
             /\ \A i \in DOMAIN queue : queue'[i] = queue[i]
             /\ queue'[Len(queue')].request = supplied
             /\ queue'[Len(queue')].request.message.id = supplied.message.id
             /\ queue'[Len(queue')].request.options = supplied.options
             /\ queue'[Len(queue')].complete = calls'[c].tx
             /\ calls'[c].tx = Len(slots) + 1
             /\ calls'[c].rx = calls'[c].tx
             /\ Len(slots') = Len(slots) + 1
             /\ slots'[Len(slots')] = EmptySlot
             /\ \A k \in DOMAIN slots : slots'[k] = slots[k]
             /\ \A d \in DOMAIN calls : calls'[d] = calls[d]
             /\ UNCHANGED <<nHandles, rxAlive, held, deqLog, drained,
                            written>>]_vars

\* A second, different request was sent while the envelope of the first was
\* still queued: both envelopes are on the queue, in order, each with the
\* request its caller supplied.
C18_Witness ==
    /\ Len(calls) = 2 /\ Len(queue) = 2
    /\ calls[1].request # calls[2].request
    /\ queue[1] = [request |-> calls[1].request, complete |-> calls[1].tx]
    /\ queue[2] = [request |-> calls[2].request, complete |-> calls[2].tx]
    /\ queue[2].request.message.id = 9

====
